---- MODULE Spec2Model ----
(***************************************************************************)
(* Verification model of pdf-tailwind-forms.                               *)
(*                                                                         *)
(*  - PDFTailwindGenerator (core/pdf-generator): the content-flow and      *)
(*    page-break controller (pages, contentFlow, header/footer stamping).  *)
(*  - FormHelpers.createTable / createSplitTable: the table splitter.      *)
(*  - PDFGenerator.generate (src/pdf-generator.ts): field placement.       *)
(*                                                                         *)
(* Lengths are integers (points); the arithmetic of the code that is       *)
(* modelled here only adds, subtracts, compares and floors quotients.      *)
(***************************************************************************)
EXTENDS Integers, Sequences, FiniteSets, TLC

(***************************************************************************)
(* Bounds of the model.                                                    *)
(***************************************************************************)
\* A run stops creating pages once the document has this many.
MaxPages == 3
\* Flow operations are no longer started once the cursor is below this.
MinCursor == 0
\* ... or above this (a negative advance moves the cursor up).
MaxCursor == 200

(***************************************************************************)
(* Program constants.                                                      *)
(***************************************************************************)
\* theme.fieldSpacing set by initializeTheme
fieldSpacing == 25

(***************************************************************************)
(* Inputs.                                                                 *)
(***************************************************************************)
\* Page geometry handed to the constructor (defaultPageOptions and the
\* header/footer bands of multiPageLayout).  The second layout has bands
\* that exceed the page height.
Layouts ==
  { [height |-> 200, top |-> 10, bottom |-> 10, headerHeight |-> 10, footerHeight |-> 10],
    [height |-> 200, top |-> 10, bottom |-> 10, headerHeight |-> 100, footerHeight |-> 100] }

\* pageNumbering.enabled and pageNumbering.startPage
Numberings ==
  { [enabled |-> FALSE, startPage |-> 1],
    [enabled |-> TRUE, startPage |-> 1],
    [enabled |-> TRUE, startPage |-> 2] }

\* Heights of the elements handed to the flow operations.
Heights == {-30, 40, 170}

\* Amounts handed to updateCurrentY by a caller.
Deltas == {-30, 20}

\* The optional second argument of checkContentOverflow: absent, or a number.
NoAtY == [given |-> FALSE, value |-> 0]
AtYs == {NoAtY} \cup { [given |-> TRUE, value |-> v] : v \in {0, 100} }

\* Caller-chosen y of a field or rectangle.
Ys == {50}

VARIABLES
  defaultPageOptions,   \* PDFTailwindGenerator.defaultPageOptions (height, margins)
  multiPageLayout,      \* PDFTailwindGenerator.multiPageLayout
  pages,                \* PDFTailwindGenerator.pages: what was stamped on each page
  currentPageIndex,     \* PDFTailwindGenerator.currentPageIndex (0-based; -1: no current page)
  contentFlow,          \* PDFTailwindGenerator.contentFlow
  lastOp,               \* the last operation called on the generator, its arguments and outcome
  table,                \* FormHelpers.createTable: its options, the locals of createSplitTable, what it drew
  form,                 \* FormHelpers.createAutoFlowForm: its fields, what it drew and where
  styled,               \* a styled text field: its class names and own attributes, what they were resolved to
  browser,              \* PDFGenerator.browser: 0 is null, otherwise the engine instance it refers to
  engines,              \* the engine instances launched so far: how often each was closed
  calls,                \* the generate calls: configuration, position in the code, locals, outcome
  destroys,             \* the destroy calls: position in the code, the instance found, outcome
  batch                 \* the generateBatch call: its configurations, its results, outcome

flowVars == <<defaultPageOptions, multiPageLayout, pages, currentPageIndex, contentFlow, lastOp, table, form, styled>>
callerVars == <<destroys, batch>>
genVars == <<browser, engines, calls, callerVars>>
vars == <<flowVars, genVars>>

(***************************************************************************)
(* PDFTailwindGenerator: the generator state as one value, and its methods *)
(* as functions from state to state.                                       *)
(***************************************************************************)
\* contentFlow is undefined until the first page is added.
UndefinedFlow ==
  [defined |-> FALSE, currentY |-> 0, remainingHeight |-> 0, pageNumber |-> 0,
   totalPages |-> 0, isOverflowing |-> FALSE]

G ==
  [dpo |-> defaultPageOptions, mpl |-> multiPageLayout, pages |-> pages,
   cur |-> currentPageIndex, cf |-> contentFlow]

calculateContentHeight(g) ==
  g.dpo.height - g.dpo.top - g.dpo.bottom - g.mpl.headerHeight - g.mpl.footerHeight

\* The top of the content area: height - margins.top - headerHeight.
ContentTop(g) == g.dpo.height - g.dpo.top - g.mpl.headerHeight

\* margins.bottom + footerHeight, the minY of checkContentOverflow.
MinY(g) == g.dpo.bottom + g.mpl.footerHeight

initializeContentFlow(g) ==
  [g EXCEPT !.cf = [defined |-> TRUE,
                    currentY |-> ContentTop(g),
                    remainingHeight |-> calculateContentHeight(g),
                    pageNumber |-> 1,
                    totalPages |-> 1,
                    isOverflowing |-> FALSE]]

\* What addHeaderAndFooter draws on the current page: the page number and the
\* total it reads from contentFlow (handed to the header/footer content and
\* substituted for {current}/{total}), and whether a page number is printed.
addHeaderAndFooter(g) ==
  IF g.cur < 0 THEN g
  ELSE [g EXCEPT !.pages[g.cur + 1] =
          [current |-> g.cf.pageNumber,
           total |-> g.cf.totalPages,
           numbered |-> g.mpl.numbering /\ g.cf.pageNumber >= g.mpl.startPage]]

BlankPage == [current |-> 0, total |-> 0, numbered |-> FALSE]

addPage(g) ==
  LET g1 == [g EXCEPT !.pages = Append(@, BlankPage), !.cur = Len(g.pages)]
      g2 == IF Len(g1.pages) = 1
              THEN initializeContentFlow(
                     [g1 EXCEPT !.mpl.contentHeight = calculateContentHeight(g1)])
              ELSE g1
  IN addHeaderAndFooter(g2)

updateTotalPagesCount(g) == [g EXCEPT !.cf.totalPages = Len(g.pages) + 1]

\* Variant: the page number is not increased.
addPageBreak_NoIncrement(g) ==
  LET g1 == updateTotalPagesCount(g)
      g2 == addPage(g1)
  IN [g2 EXCEPT !.cf.currentY = ContentTop(g2),
                !.cf.remainingHeight = calculateContentHeight(g2),
                !.cf.isOverflowing = FALSE]

addPageBreak(g) ==
  LET g1 == updateTotalPagesCount(g)
      g2 == addPage(g1)
  IN [g2 EXCEPT !.cf.pageNumber = @ + 1,
                !.cf.currentY = ContentTop(g2),
                !.cf.remainingHeight = calculateContentHeight(g2),
                !.cf.isOverflowing = FALSE]

\* `currentY || this.contentFlow.currentY`: an absent argument and the number
\* 0 are both falsy and give the cursor.
checkContentOverflow(g, elementHeight, atY) ==
  LET y == IF atY.given /\ atY.value # 0 THEN atY.value ELSE g.cf.currentY
  IN y - elementHeight < MinY(g)

\* Variant: reports the overflow without breaking the page.
handleContentOverflow_NoBreak(g, elementHeight) ==
  [g |-> g, ret |-> g.mpl.autoPageBreak /\ checkContentOverflow(g, elementHeight, NoAtY)]

\* Returns the new state and the boolean the method returns.
handleContentOverflow(g, elementHeight) ==
  IF g.mpl.autoPageBreak /\ checkContentOverflow(g, elementHeight, NoAtY)
    THEN [g |-> addPageBreak(g), ret |-> TRUE]
    ELSE [g |-> g, ret |-> FALSE]

\* Variant: the cursor is moved the other way.
updateCurrentY_Up(g, deltaY) ==
  [g EXCEPT !.cf.currentY = @ + deltaY, !.cf.remainingHeight = @ - deltaY]

updateCurrentY(g, deltaY) ==
  [g EXCEPT !.cf.currentY = @ - deltaY, !.cf.remainingHeight = @ - deltaY]

\* addTextField, as far as the content flow goes: the page break, the y the
\* field is drawn at, the page it is added to, and the cursor advance.
\* fieldAutoPageBreak is `options.autoPageBreak !== false`.
addTextField(g, y, height, fieldAutoPageBreak) ==
  LET r == IF fieldAutoPageBreak /\ g.mpl.autoPageBreak
             THEN handleContentOverflow(g, height)
             ELSE [g |-> g, ret |-> FALSE]
      drawnY == IF r.ret THEN r.g.cf.currentY - height ELSE y
      g2 == IF fieldAutoPageBreak
              THEN updateCurrentY(r.g, height + fieldSpacing)
              ELSE r.g
  IN [g |-> g2, broke |-> r.ret, page |-> r.g.cur, y |-> drawnY]

\* drawRectangle: same pattern, the advance is the height.
drawRectangle(g, y, height, rectAutoPageBreak) ==
  LET r == IF rectAutoPageBreak /\ g.mpl.autoPageBreak
             THEN handleContentOverflow(g, height)
             ELSE [g |-> g, ret |-> FALSE]
      drawnY == IF r.ret THEN r.g.cf.currentY - height ELSE y
      g2 == IF rectAutoPageBreak THEN updateCurrentY(r.g, height) ELSE r.g
  IN [g |-> g2, broke |-> r.ret, page |-> r.g.cur, y |-> drawnY]

\* finalizePageNumbers: returns at once unless page numbering is enabled,
\* and otherwise visits every page without drawing or changing anything.
finalizePageNumbers(g) == g

(***************************************************************************)
(* FormHelpers.createTable and createSplitTable.                           *)
(***************************************************************************)
\* Table options.  headers: a non-empty headers array was given; dataLen:
\* data.length (0: no data); autoPageBreak: `options.autoPageBreak !== false`.
TableRows == {2, 5}
TableColumns == {1, 2}
CellHeights == {30, 60}

TableOptions ==
  { [rows |-> r, columns |-> c, cellHeight |-> ch, headers |-> hd,
     dataLen |-> dl, autoPageBreak |-> apb, y |-> 50] :
      r \in TableRows, c \in TableColumns, ch \in CellHeights, hd \in BOOLEAN,
      dl \in {0, 5}, apb \in BOOLEAN }

NoTable ==
  [pc |-> "idle", threw |-> FALSE, split |-> FALSE,
   options |-> [rows |-> 0, columns |-> 0, cellHeight |-> 0, headers |-> FALSE,
                dataLen |-> 0, autoPageBreak |-> FALSE, y |-> 0],
   rowsPerPage |-> 0, currentRow |-> 0, currentY |-> 0,
   pagesAtStart |-> 0, fragments |-> <<>>]

Min(a, b) == IF a < b THEN a ELSE b

\* n grid lines, each a drawRectangle without an autoPageBreak option.
RECURSIVE drawGridLines(_, _, _)
drawGridLines(g, n, height) ==
  IF n <= 0 THEN g
  ELSE drawGridLines(drawRectangle(g, 0, height, TRUE).g, n - 1, height)

\* The indices of the data rows drawn: `count` of them starting at `first`.
DataRows(first, count) == [k \in 1..count |-> first + k - 1]

\* What one fragment of a table is: its row range, the page that was current,
\* the cursor and the remaining height when it was started, and what was
\* drawn in it.
Fragment(g, first, count, header, data) ==
  [first |-> first, count |-> count, page |-> g.cur, cursor |-> g.cf.currentY,
   avail |-> g.cf.remainingHeight, header |-> header, data |-> data]

\* The body of createTable after the split decision: border, grid lines,
\* headers and data of the whole table.
drawWholeTable(g, o) ==
  LET tableHeight == o.rows * o.cellHeight
      g1 == drawRectangle(g, o.y, tableHeight, o.autoPageBreak).g
      g2 == drawGridLines(g1, o.columns - 1, tableHeight)
      g3 == drawGridLines(g2, o.rows - 1, 1)
      startRow == IF o.headers THEN 1 ELSE 0
      drawn == IF o.dataLen > 0 THEN Min(o.dataLen, o.rows - startRow) ELSE 0
  IN [g |-> g3,
      fragment |-> Fragment(g, 0, o.rows, o.headers,
                            DataRows(0, IF drawn > 0 THEN drawn ELSE 0))]

\* The split decision of createTable: the table overflows the page and the
\* page has room for fewer rows than the table has.
rowsPerPageOf(g, o) == g.cf.remainingHeight \div o.cellHeight

splitsTable(g, o) ==
  /\ o.autoPageBreak
  /\ checkContentOverflow(g, o.rows * o.cellHeight, NoAtY)
  /\ rowsPerPageOf(g, o) < o.rows

\* Variant: `currentRow = remainingRows` instead of `currentRow += remainingRows`.
splitTableIteration_Assign(g, t) ==
  LET o == t.options
      remainingRows == Min(t.rowsPerPage, o.rows - t.currentRow)
      currentTableHeight == remainingRows * o.cellHeight
      g1 == drawRectangle(g, t.currentY, currentTableHeight, FALSE).g
      g2 == drawGridLines(g1, o.columns - 1, currentTableHeight)
      g3 == drawGridLines(g2, remainingRows - 1, 1)
      dataStartRow == IF o.headers THEN 1 ELSE 0
      avail == Min(remainingRows - dataStartRow, o.dataLen - t.currentRow)
      data == IF o.dataLen > t.currentRow /\ avail > 0
                THEN DataRows(t.currentRow, avail) ELSE <<>>
      nextRow == remainingRows
      more == nextRow < o.rows
      g4 == IF more THEN addPageBreak(g3) ELSE g3
  IN [g |-> g4,
      t |-> [t EXCEPT
               !.fragments = Append(@, Fragment(g, t.currentRow, remainingRows, o.headers, data)),
               !.currentRow = nextRow,
               !.currentY = IF more
                              THEN MinY(g4) + g4.mpl.contentHeight - o.cellHeight
                              ELSE @,
               !.pc = IF more THEN "split" ELSE "done"]]

\* One iteration of the while loop of createSplitTable.
splitTableIteration(g, t) ==
  LET o == t.options
      remainingRows == Min(t.rowsPerPage, o.rows - t.currentRow)
      currentTableHeight == remainingRows * o.cellHeight
      g1 == drawRectangle(g, t.currentY, currentTableHeight, FALSE).g
      g2 == drawGridLines(g1, o.columns - 1, currentTableHeight)
      g3 == drawGridLines(g2, remainingRows - 1, 1)
      dataStartRow == IF o.headers THEN 1 ELSE 0
      avail == Min(remainingRows - dataStartRow, o.dataLen - t.currentRow)
      data == IF o.dataLen > t.currentRow /\ avail > 0
                THEN DataRows(t.currentRow, avail) ELSE <<>>
      nextRow == t.currentRow + remainingRows
      more == nextRow < o.rows
      g4 == IF more THEN addPageBreak(g3) ELSE g3
  IN [g |-> g4,
      t |-> [t EXCEPT
               !.fragments = Append(@, Fragment(g, t.currentRow, remainingRows, o.headers, data)),
               !.currentRow = nextRow,
               !.currentY = IF more
                              THEN MinY(g4) + g4.mpl.contentHeight - o.cellHeight
                              ELSE @,
               !.pc = IF more THEN "split" ELSE "done"]]

(***************************************************************************)
(* FormHelpers.createAutoFlowForm.                                         *)
(***************************************************************************)
\* A form has at most this many fields.
MaxFormFields == 3

\* The locals fieldHeight, labelSpacing and fieldSpacing of createAutoFlowForm.
fieldHeight == 25
labelSpacing == 20
autoFlowFieldSpacing == 30

\* The fields of a form: the type, whether a label and a name are given.
FormFieldShapes ==
  { [type |-> "text", label |-> TRUE, name |-> TRUE],
    [type |-> "text", label |-> TRUE, name |-> FALSE],
    [type |-> "checkbox", label |-> FALSE, name |-> TRUE],
    [type |-> "dropdown", label |-> TRUE, name |-> TRUE],
    [type |-> "section", label |-> TRUE, name |-> FALSE] }

FormFields == UNION { [1..n -> FormFieldShapes] : n \in 0..MaxFormFields }

NoForm ==
  [pc |-> "idle", threw |-> FALSE, fields |-> <<>>, placed |-> <<>>, pagesAtStart |-> 0]

\* getContentArea().y + getContentArea().height - 50
FirstFieldY(g) == MinY(g) + g.mpl.contentHeight - 50

\* addCheckBox, as far as the content flow goes: as addTextField.
addCheckBox(g, y, height, fieldAutoPageBreak) ==
  LET r == IF fieldAutoPageBreak /\ g.mpl.autoPageBreak
             THEN handleContentOverflow(g, height)
             ELSE [g |-> g, ret |-> FALSE]
      drawnY == IF r.ret THEN r.g.cf.currentY - height ELSE y
      g2 == IF fieldAutoPageBreak
              THEN updateCurrentY(r.g, height + fieldSpacing)
              ELSE r.g
  IN [g |-> g2, broke |-> r.ret, page |-> r.g.cur, y |-> drawnY]

\* drawText of one line with autoPageBreak: false: the line is drawn at y on
\* the current page and the content flow is left alone.
drawText(g, y) == [g |-> g, page |-> g.cur, y |-> y]

\* addFieldLabel: the label is drawn at y + (options.labelSpacing || 20).
addFieldLabel(g, y, labelSpacingOption) ==
  drawText(g, y + (IF labelSpacingOption # 0 THEN labelSpacingOption ELSE 20))

\* createFormSection with autoPageBreak: false: the background rectangle of
\* height 35 at y - 40; title and description are drawn inside it.
createFormSection(g, y) == drawRectangle(g, y - 40, 35, FALSE)

\* What createAutoFlowForm draws for one field: the label, then the widget.
Placed(kind, r) == [kind |-> kind, page |-> r.page, y |-> r.y]

drawFormField(g, field, currentY) ==
  (IF field.label
     THEN <<Placed("label", addFieldLabel(g, currentY - labelSpacing, 0))>>
     ELSE <<>>)
  \o
  (IF field.type = "text" /\ field.name
     THEN <<Placed("text", addTextField(g, currentY - fieldHeight, fieldHeight, FALSE))>>
   ELSE IF field.type = "checkbox" /\ field.name
     THEN <<Placed("checkbox", addCheckBox(g, currentY - fieldHeight, 15, FALSE))>>
   ELSE IF field.type = "section" /\ field.label
     THEN <<Placed("section", createFormSection(g, currentY + 10))>>
   ELSE <<>>)

\* The loop of createAutoFlowForm from its i-th field on.  Every call made
\* in the body passes autoPageBreak: false and leaves the generator alone.
RECURSIVE autoFlowFrom(_, _, _, _, _)
autoFlowFrom(g, fields, i, currentY, placed) ==
  IF i > Len(fields) THEN [g |-> g, placed |-> placed]
  ELSE LET totalFieldHeight == fieldHeight + labelSpacing + autoFlowFieldSpacing
       IN IF checkContentOverflow(g, totalFieldHeight, NoAtY)
            THEN autoFlowFrom(addPageBreak(g), fields, i + 1,
                              FirstFieldY(addPageBreak(g)) - totalFieldHeight,
                              placed \o drawFormField(addPageBreak(g), fields[i],
                                                      FirstFieldY(addPageBreak(g))))
            ELSE autoFlowFrom(g, fields, i + 1, currentY - totalFieldHeight,
                              placed \o drawFormField(g, fields[i], currentY))

(***************************************************************************)
(* TailwindToPDFConverter (src/styles/tailwind-converter.ts).              *)
(* A class name is the tuple of its parts between the dashes: "bg-red-500" *)
(* is <<"bg", "red", "500">>.  Colours are triples in hundredths.          *)
(***************************************************************************)
\* A class list has at most this many class names.
MaxClasses == 2

\* The colorMap initializeColorMap builds, restricted to the colours the
\* class names below use.
initializeColorMap ==
  (<<"white">> :> <<100, 100, 100>>)
    @@ (<<"red", "500">> :> <<94, 20, 20>>)
    @@ (<<"blue", "500">> :> <<23, 52, 91>>)

\* The sizeMap initializeSizeMap builds, restricted to the names the class
\* names below use (a spacing unit is 3 points).
initializeSizeMap ==
  (<<"text", "sm">> :> 12) @@ (<<"text", "lg">> :> 16)
    @@ (<<"border">> :> 1) @@ (<<"border", "0">> :> 0) @@ (<<"border", "2">> :> 2)
    @@ (<<"p", "4">> :> 12) @@ (<<"px", "2">> :> 6) @@ (<<"pt", "1">> :> 3)
    @@ (<<"m", "4">> :> 12) @@ (<<"my", "2">> :> 6)
    @@ (<<"rounded", "none">> :> 0) @@ (<<"rounded", "lg">> :> 8)

\* The converter's maps, as they are now.
colorMap == styled.colorMap
sizeMap == styled.sizeMap

\* Variant: the registered colour replaces the map.
addCustomColor_Clears(map, name, r, g, b) ==
  name :> <<(r * 100) \div 255, (g * 100) \div 255, (b * 100) \div 255>>

\* addCustomColor: colorMap.set(name, rgb(r / 255, g / 255, b / 255))
addCustomColor(map, name, r, g, b) ==
  (name :> <<(r * 100) \div 255, (g * 100) \div 255, (b * 100) \div 255>>) @@ map

\* addCustomSize: sizeMap.set(name, value)
addCustomSize(map, name, value) == (name :> value) @@ map

\* parseInt on the strings that follow "opacity-" below; it gives NaN for
\* every other string.
parseInt == ("50" :> 50) @@ ("0" :> 0)

\* The class names a class list is made of.
Vocabulary ==
  { <<"bg", "red", "500">>, <<"bg", "blue", "500">>, <<"bg", "unknown">>,
    <<"text", "white">>, <<"text", "red", "500">>,
    <<"text", "sm">>, <<"text", "lg">>, <<"text", "center">>, <<"text", "left">>,
    <<"border">>, <<"border", "0">>, <<"border", "2">>, <<"border", "red", "500">>,
    <<"rounded", "lg">>, <<"rounded", "none">>,
    <<"font", "bold">>, <<"italic">>, <<"underline">>, <<"no", "underline">>,
    <<"p", "4">>, <<"px", "2">>, <<"pt", "1">>, <<"m", "4">>, <<"my", "2">>,
    <<"opacity", "50">>, <<"flex">> }

\* A style record is a function from the properties that are set to their values.
NoStyles == [a \in {} |-> 0]
Put(styles, a, v) == (a :> v) @@ styles

\* className.startsWith(prefix + "-")
StartsWith(className, prefix) == Len(className) >= 2 /\ className[1] = prefix

\* The first letter of a class name, for the names above that have a size.
Initial(className) ==
  IF className[1] \in {"p", "pt", "pr", "pb", "pl", "px", "py"} THEN "p"
  ELSE IF className[1] \in {"m", "mt", "mr", "mb", "ml", "mx", "my"} THEN "m"
  ELSE "other"

\* The else-if chain of the padding and margin blocks; n names the prefixes.
setSides(sides, className, value, n) ==
  IF StartsWith(className, n.top) THEN [sides EXCEPT !.top = value]
  ELSE IF StartsWith(className, n.right) THEN [sides EXCEPT !.right = value]
  ELSE IF StartsWith(className, n.bottom) THEN [sides EXCEPT !.bottom = value]
  ELSE IF StartsWith(className, n.left) THEN [sides EXCEPT !.left = value]
  ELSE IF StartsWith(className, n.x) THEN [sides EXCEPT !.left = value, !.right = value]
  ELSE IF StartsWith(className, n.y) THEN [sides EXCEPT !.top = value, !.bottom = value]
  ELSE IF StartsWith(className, n.all)
    THEN [top |-> value, right |-> value, bottom |-> value, left |-> value]
  ELSE sides

\* The padding (margin) block of the loop body.
spacing(styles, className, property, letter, n) ==
  IF Initial(className) = letter /\ className \in DOMAIN sizeMap
    THEN Put(styles, property,
             setSides((styles @@ (property :> [top |-> 0, right |-> 0, bottom |-> 0, left |-> 0]))[property],
                      className, sizeMap[className], n))
    ELSE styles

PaddingNames ==
  [top |-> "pt", right |-> "pr", bottom |-> "pb", left |-> "pl", x |-> "px", y |-> "py", all |-> "p"]
MarginNames ==
  [top |-> "mt", right |-> "mr", bottom |-> "mb", left |-> "ml", x |-> "mx", y |-> "my", all |-> "m"]

\* The blocks of the loop body of convertTailwindToStyles, in its order.
\* Each takes the style record so far and one class name.
backgroundColorClass(styles, className) ==
  IF StartsWith(className, "bg") /\ Tail(className) \in DOMAIN colorMap
    THEN Put(styles, "backgroundColor", colorMap[Tail(className)]) ELSE styles

textColorClass(styles, className) ==
  IF /\ StartsWith(className, "text") /\ className \notin DOMAIN sizeMap
     /\ Tail(className) \in DOMAIN colorMap
    THEN Put(styles, "textColor", colorMap[Tail(className)]) ELSE styles

borderColorClass(styles, className) ==
  IF /\ StartsWith(className, "border") /\ className \notin DOMAIN sizeMap
     /\ Tail(className) \in DOMAIN colorMap
    THEN Put(styles, "borderColor", colorMap[Tail(className)]) ELSE styles

\* Variant: a font size is set only when none has been set yet.
fontSizeClass_KeepsFirst(styles, className) ==
  IF /\ className \in DOMAIN sizeMap /\ StartsWith(className, "text")
     /\ "fontSize" \notin DOMAIN styles
    THEN Put(styles, "fontSize", sizeMap[className]) ELSE styles

fontSizeClass(styles, className) ==
  IF className \in DOMAIN sizeMap /\ StartsWith(className, "text")
    THEN Put(styles, "fontSize", sizeMap[className]) ELSE styles

borderWidthClass(styles, className) ==
  IF className[1] = "border" /\ className \in DOMAIN sizeMap
    THEN Put(styles, "borderWidth", sizeMap[className]) ELSE styles

borderRadiusClass(styles, className) ==
  IF className[1] = "rounded" /\ className \in DOMAIN sizeMap
    THEN Put(styles, "borderRadius", sizeMap[className]) ELSE styles

textAlignClass(styles, className) ==
  IF className = <<"text", "left">> THEN Put(styles, "textAlign", "left")
  ELSE IF className = <<"text", "center">> THEN Put(styles, "textAlign", "center")
  ELSE IF className = <<"text", "right">> THEN Put(styles, "textAlign", "right")
  ELSE styles

fontWeightClass(styles, className) ==
  IF className = <<"font", "normal">> THEN Put(styles, "fontWeight", "normal")
  ELSE IF className = <<"font", "bold">> THEN Put(styles, "fontWeight", "bold")
  ELSE styles

fontStyleClass(styles, className) ==
  IF className = <<"italic">> THEN Put(styles, "fontStyle", "italic")
  ELSE IF className = <<"not", "italic">> THEN Put(styles, "fontStyle", "normal")
  ELSE styles

textDecorationClass(styles, className) ==
  IF className = <<"underline">> THEN Put(styles, "textDecoration", "underline")
  ELSE IF className = <<"line", "through">> THEN Put(styles, "textDecoration", "line-through")
  ELSE IF className = <<"no", "underline">> THEN Put(styles, "textDecoration", "none")
  ELSE styles

paddingClass(styles, className) == spacing(styles, className, "padding", "p", PaddingNames)

marginClass(styles, className) == spacing(styles, className, "margin", "m", MarginNames)

\* opacity is kept in hundredths (opacityValue / 100 in the code).
opacityClass(styles, className) ==
  IF /\ StartsWith(className, "opacity") /\ Len(className) = 2
     /\ className[2] \in DOMAIN parseInt
    THEN Put(styles, "opacity", parseInt[className[2]]) ELSE styles

\* The body of the loop of convertTailwindToStyles for one class name.
applyClass(styles, className) ==
  opacityClass(
    marginClass(
      paddingClass(
        textDecorationClass(
          fontStyleClass(
            fontWeightClass(
              textAlignClass(
                borderRadiusClass(
                  borderWidthClass(
                    fontSizeClass(
                      borderColorClass(
                        textColorClass(
                          backgroundColorClass(styles, className),
                          className), className), className), className), className),
                className), className), className), className), className), className),
    className)

\* convertTailwindToStyles, from the i-th class name on.
RECURSIVE convertFrom(_, _, _)
convertFrom(classes, i, styles) ==
  IF i > Len(classes) THEN styles
  ELSE convertFrom(classes, i + 1, applyClass(styles, classes[i]))

convertTailwindToStyles(classes) == convertFrom(classes, 1, NoStyles)

\* JavaScript truthiness of a numeric property: it is set and not 0.
Truthy(record, a) == a \in DOMAIN record /\ record[a] # 0

\* `if (from.a) fieldOptions.a = from.a` for a colour (an object: truthy
\* when it is set) and for a number.
copyColor(fieldOptions, from, a) ==
  IF a \in DOMAIN from THEN Put(fieldOptions, a, from[a]) ELSE fieldOptions

copyNumber(fieldOptions, from, a) ==
  IF Truthy(from, a) THEN Put(fieldOptions, a, from[a]) ELSE fieldOptions

\* The five properties addTextField or the field's own options set.
copyAttributes(fieldOptions, from) ==
  copyNumber(
    copyNumber(
      copyColor(
        copyColor(
          copyColor(fieldOptions, from, "backgroundColor"),
          from, "borderColor"),
        from, "textColor"),
      from, "fontSize"),
    from, "borderWidth")

\* The drawing attributes addTextField hands to addToPage: those of the
\* class names first, then the field's own ones over them, each under a
\* truthiness test.
textFieldOptions(options, classes) ==
  copyAttributes(copyAttributes(NoStyles, convertTailwindToStyles(classes)), options)

\* The class lists handed to the converter.
ClassLists == UNION { [1..n -> Vocabulary] : n \in 0..MaxClasses }

\* The attributes a field gives itself: none, or a font size, a border
\* width and a background colour in any combination.
ExplicitOptions ==
  { fontSize @@ borderWidth @@ backgroundColor :
      fontSize \in {NoStyles, "fontSize" :> 0, "fontSize" :> 9},
      borderWidth \in {NoStyles, "borderWidth" :> 0, "borderWidth" :> 3},
      backgroundColor \in {NoStyles, "backgroundColor" :> <<0, 50, 0>>} }

\* No styled field is being looked at; the converter is as constructed.
\* custom lists the names registered since, before is what the class list
\* was converted to ahead of the last registration.
NoStyled ==
  [pc |-> "none", classes |-> <<>>, options |-> NoStyles, styles |-> NoStyles,
   fieldOptions |-> NoStyles,
   colorMap |-> initializeColorMap, sizeMap |-> initializeSizeMap,
   custom |-> <<>>, before |-> NoStyles]

\* At most this many names are registered with a converter.
MaxCustom == 1

\* Names registered as colours: new ones, the built-in "red-500", and "lg",
\* which "text-lg" ends with.
CustomColorNames == { <<"brand", "primary">>, <<"red", "500">>, <<"lg">> }
CustomColorValues == { <<51, 102, 204>>, <<255, 0, 0>> }

\* Names registered as sizes: a new one, the built-in "text-lg", and names
\* that are class names of a colour.
CustomSizeNames == { <<"text", "huge">>, <<"text", "lg">>, <<"text", "white">>, <<"bg", "red", "500">> }
CustomSizeValues == { 72 }

\* The class names of the class lists converted around a registration.
CustomVocabulary ==
  { <<"bg", "red", "500">>, <<"bg", "brand", "primary">>, <<"text", "brand", "primary">>,
    <<"text", "white">>, <<"text", "lg">>, <<"text", "huge">>, <<"bg", "lg">>,
    <<"border", "red", "500">>, <<"border", "2">>, <<"p", "4">> }

CustomClassLists == UNION { [1..n -> CustomVocabulary] : n \in 0..MaxClasses }

(***************************************************************************)
(* State after `new PDFTailwindGenerator(config)` and initialize().        *)
(***************************************************************************)
NoOp ==
  [op |-> "none", threw |-> FALSE, h |-> 0, atY |-> NoAtY, ret |-> FALSE,
   page |-> -1, y |-> 0, delta |-> 0]

InitGenerator(layouts, numberings) ==
  /\ \E l \in layouts :
       /\ defaultPageOptions = [height |-> l.height, top |-> l.top, bottom |-> l.bottom]
       /\ \E apb \in BOOLEAN, num \in numberings :
            multiPageLayout =
              [autoPageBreak |-> apb, headerHeight |-> l.headerHeight,
               footerHeight |-> l.footerHeight, contentHeight |-> 0,
               numbering |-> num.enabled, startPage |-> num.startPage]
  /\ pages = <<>>
  /\ currentPageIndex = -1
  /\ contentFlow = UndefinedFlow

\* No PDFGenerator is in use.
NoBatch == [pc |-> "none", configs |-> <<>>, results |-> <<>>]

NoGenerate ==
  /\ browser = 0
  /\ engines = <<>>
  /\ calls = <<>>
  /\ destroys = <<>>
  /\ batch = NoBatch

\* Writes a generator state value back to the variables.
Becomes(g) ==
  /\ UNCHANGED <<genVars, styled>>
  /\ pages' = g.pages
  /\ currentPageIndex' = g.cur
  /\ contentFlow' = g.cf
  /\ multiPageLayout' = g.mpl
  /\ UNCHANGED defaultPageOptions

\* The generator is left as it is (a call that threw, or that only reads).
Same == UNCHANGED <<defaultPageOptions, multiPageLayout, pages, currentPageIndex, contentFlow, genVars, styled>>

\* Operations are started only while the model's bounds hold.
InBounds ==
  /\ table.pc = "idle"
  /\ Len(pages) < MaxPages
  /\ contentFlow.defined =>
       /\ contentFlow.currentY >= MinCursor
       /\ contentFlow.currentY <= MaxCursor

Init ==
  /\ InitGenerator(Layouts, Numberings)
  /\ lastOp = NoOp
  /\ table = NoTable
  /\ form = NoForm
  /\ styled = NoStyled
  /\ NoGenerate

(***************************************************************************)
(* One action per public operation of PDFTailwindGenerator.                *)
(***************************************************************************)
AddPage ==
  /\ InBounds
  /\ UNCHANGED <<table, form>>
  /\ Becomes(addPage(G))
  /\ lastOp' = [NoOp EXCEPT !.op = "addPage", !.page = Len(pages)]

\* In the idle state contentFlow is undefined and updateTotalPagesCount
\* throws a TypeError before anything is changed.
AddPageBreak ==
  /\ InBounds
  /\ UNCHANGED <<table, form>>
  /\ IF contentFlow.defined
       THEN /\ Becomes(addPageBreak(G))
            /\ lastOp' = [NoOp EXCEPT !.op = "addPageBreak", !.page = Len(pages)]
       ELSE /\ Same
            /\ lastOp' = [NoOp EXCEPT !.op = "addPageBreak", !.threw = TRUE]

\* In the idle state contentFlow is undefined: reading its currentY throws a
\* TypeError, which happens exactly when the second argument is falsy.
CheckContentOverflow ==
  /\ table.pc = "idle"
  /\ \E h \in Heights, a \in AtYs :
       LET throws == ~contentFlow.defined /\ ~(a.given /\ a.value # 0)
       IN lastOp' = [NoOp EXCEPT !.op = "checkContentOverflow", !.h = h, !.atY = a,
                                 !.threw = throws,
                                 !.ret = IF throws THEN FALSE
                                         ELSE checkContentOverflow(G, h, a)]
  /\ Same
  /\ UNCHANGED <<table, form>>

HandleContentOverflow ==
  /\ InBounds
  /\ UNCHANGED <<table, form>>
  /\ \E h \in Heights :
       IF contentFlow.defined \/ ~multiPageLayout.autoPageBreak
         THEN LET r == handleContentOverflow(G, h)
              IN /\ Becomes(r.g)
                 /\ lastOp' = [NoOp EXCEPT !.op = "handleContentOverflow", !.h = h, !.ret = r.ret]
         ELSE /\ Same
              /\ lastOp' = [NoOp EXCEPT !.op = "handleContentOverflow", !.h = h, !.threw = TRUE]

UpdateCurrentY ==
  /\ InBounds
  /\ UNCHANGED <<table, form>>
  /\ \E d \in Deltas :
       IF contentFlow.defined
         THEN /\ Becomes(updateCurrentY(G, d))
              /\ lastOp' = [NoOp EXCEPT !.op = "updateCurrentY", !.delta = d]
         ELSE /\ Same
              /\ lastOp' = [NoOp EXCEPT !.op = "updateCurrentY", !.delta = d, !.threw = TRUE]

\* Throws "PDF not initialized" when there is no current page.
AddTextField ==
  /\ InBounds
  /\ UNCHANGED <<table, form>>
  /\ \E h \in Heights, y \in Ys, apb \in BOOLEAN :
       IF currentPageIndex >= 0
         THEN LET r == addTextField(G, y, h, apb)
              IN /\ Becomes(r.g)
                 /\ lastOp' = [NoOp EXCEPT !.op = "addTextField", !.h = h, !.ret = r.broke,
                                           !.page = r.page, !.y = r.y,
                                           !.delta = IF apb THEN h + fieldSpacing ELSE 0]
         ELSE /\ Same
              /\ lastOp' = [NoOp EXCEPT !.op = "addTextField", !.h = h, !.threw = TRUE]

\* Throws "No current page" when there is no current page.
DrawRectangle ==
  /\ InBounds
  /\ UNCHANGED <<table, form>>
  /\ \E h \in Heights, y \in Ys, apb \in BOOLEAN :
       IF currentPageIndex >= 0
         THEN LET r == drawRectangle(G, y, h, apb)
              IN /\ Becomes(r.g)
                 /\ lastOp' = [NoOp EXCEPT !.op = "drawRectangle", !.h = h, !.ret = r.broke,
                                           !.page = r.page, !.y = r.y,
                                           !.delta = IF apb THEN h ELSE 0]
         ELSE /\ Same
              /\ lastOp' = [NoOp EXCEPT !.op = "drawRectangle", !.h = h, !.threw = TRUE]

\* save: finalizePageNumbers, then the document is serialised as it is.
Save ==
  /\ table.pc = "idle"
  /\ UNCHANGED <<table, form>>
  /\ Becomes(finalizePageNumbers(G))
  /\ lastOp' = [NoOp EXCEPT !.op = "save", !.page = Len(pages)]

Next ==
  \/ AddPage
  \/ AddPageBreak
  \/ CheckContentOverflow
  \/ HandleContentOverflow
  \/ UpdateCurrentY
  \/ AddTextField
  \/ DrawRectangle
  \/ Save

Spec == Init /\ [][Next]_vars

\* createTable.  Without a current page it throws (checkContentOverflow reads
\* the undefined contentFlow, or drawRectangle finds no current page).
CreateTable ==
  /\ InBounds
  /\ UNCHANGED <<lastOp, form>>
  /\ \E o \in TableOptions :
       LET start == [NoTable EXCEPT !.options = o, !.pagesAtStart = Len(pages),
                                    !.currentY = o.y]
       IN IF currentPageIndex < 0
            THEN /\ Same
                 /\ table' = [start EXCEPT !.pc = "done", !.threw = TRUE]
            ELSE IF splitsTable(G, o)
              THEN /\ Same
                   /\ table' = [start EXCEPT !.pc = "split", !.split = TRUE,
                                             !.rowsPerPage = rowsPerPageOf(G, o)]
              ELSE LET r == drawWholeTable(G, o)
                   IN /\ Becomes(r.g)
                      /\ table' = [start EXCEPT !.pc = "done",
                                                !.fragments = <<r.fragment>>]

\* createSplitTable: one iteration of its loop.
SplitTableStep ==
  /\ table.pc = "split"
  /\ Len(pages) <= MaxPages
  /\ UNCHANGED <<lastOp, form>>
  /\ LET r == splitTableIteration(G, table)
     IN /\ Becomes(r.g)
        /\ table' = r.t

NextTable ==
  \/ AddPage
  \/ UpdateCurrentY
  \/ CreateTable
  \/ SplitTableStep

\* The table is created on a generator in any state that addPage and
\* updateCurrentY lead to; page numbering plays no part in it.
InitTable ==
  /\ InitGenerator(Layouts, {[enabled |-> TRUE, startPage |-> 1]})
  /\ lastOp = NoOp
  /\ table = NoTable
  /\ form = NoForm
  /\ styled = NoStyled
  /\ NoGenerate

SpecTable == InitTable /\ [][NextTable]_vars

(***************************************************************************)
(* FormHelpers.createAutoFlowForm on a generator in any state.             *)
(***************************************************************************)
\* With no page contentFlow is undefined and the overflow check of the first
\* field throws a TypeError; with no field nothing is done.
CreateAutoFlowForm ==
  /\ InBounds
  /\ form.pc = "idle"
  /\ UNCHANGED <<lastOp, table>>
  /\ \E fields \in FormFields :
       LET start == [NoForm EXCEPT !.fields = fields, !.pagesAtStart = Len(pages)]
       IN IF Len(fields) > 0 /\ ~contentFlow.defined
            THEN /\ Same
                 /\ form' = [start EXCEPT !.pc = "done", !.threw = TRUE]
            ELSE LET r == autoFlowFrom(G, fields, 1, FirstFieldY(G), <<>>)
                 IN /\ Becomes(r.g)
                    /\ form' = [start EXCEPT !.pc = "done", !.placed = r.placed]

NextAutoFlow ==
  \/ AddPage
  \/ UpdateCurrentY
  \/ CreateAutoFlowForm

InitAutoFlow ==
  /\ InitGenerator(Layouts, {[enabled |-> TRUE, startPage |-> 1]})
  /\ lastOp = NoOp
  /\ table = NoTable
  /\ form = NoForm
  /\ styled = NoStyled
  /\ NoGenerate

SpecAutoFlow == InitAutoFlow /\ [][NextAutoFlow]_vars


(***************************************************************************)
(* PDFGenerator.generate (src/pdf-generator.ts).                           *)
(***************************************************************************)
\* A generate call has at most this many fields.
MaxFields == 2

\* The height of an A4 page in points (page.pdf is called with format "A4").
A4HeightPt == 842

\* The rendered content: the number of pages page.pdf produces for it, the
\* viewport height, and the bounding rectangles (in pixels) of the elements
\* that selectors can match.  ".b" lies on the second page.
Contents ==
  { [pageCount |-> 1, innerHeight |-> 800,
     dom |-> [sel \in {".a"} |-> [left |-> 100, top |-> 48, width |-> 200, height |-> 32]]],
    [pageCount |-> 2, innerHeight |-> 800,
     dom |-> [sel \in {".a", ".b"} |->
                IF sel = ".a" THEN [left |-> 100, top |-> 48, width |-> 200, height |-> 32]
                ELSE [left |-> 100, top |-> 1200, width |-> 200, height |-> 32]]] }

\* field.selector: "" stands for an absent selector.
Selectors == {"", "#does-not-exist", ".a", ".b"}

\* field.pageIndex: absent, or a number.
NoPageIndex == [given |-> FALSE, value |-> 0]
PageIndexes == {NoPageIndex} \cup { [given |-> TRUE, value |-> v] : v \in {1, 5} }

\* field.position, when given.
ExplicitPosition == [set |-> TRUE, x |-> 100, y |-> 100, width |-> 200, height |-> 30,
                     hasPdfY |-> FALSE, pdfY |-> 0]
\* No entry in the fieldPositions map / a null query result.
NoPosition == [set |-> FALSE, x |-> 0, y |-> 0, width |-> 0, height |-> 0,
               hasPdfY |-> FALSE, pdfY |-> 0]

\* The field specs, without their names.
FieldKinds ==
  { [selector |-> sel, hasPosition |-> hp, pageIndex |-> pi] :
      sel \in Selectors, hp \in BOOLEAN, pi \in PageIndexes }

\* Numbers with fractions are kept in units of 1/510, so that 0.5 and
\* 1.5 / 255 are integers: One is 1.
One == 2 * 255

\* field.borderWidth: absent, or a number.
NoBorderWidth == [given |-> FALSE, value |-> 0]

\* field.backgroundColor / field.borderColor: absent, or an RGB triple.
NoColor == [given |-> FALSE, value |-> <<0, 0, 0>>]

\* The channels -50, 1.5 and 300, and the triples made of them and of 0.5, 1, 0.
Channels == {-50 * One, (3 * One) \div 2, 300 * One}
Colors ==
  { [given |-> TRUE, value |-> <<r, g, b>>] : r \in Channels, g \in Channels, b \in Channels }
    \cup { [given |-> TRUE, value |-> <<One \div 2, One, 0>>] }

\* The field lists of a configuration: field names are unique (the i-th
\* field is named i).  These fields have no offsets and no width or height
\* of their own (0 stands for an absent number as well as for 0: the code
\* reads them with `||`).
FieldLists ==
  UNION { { [i \in 1..n |-> [name |-> i, selector |-> ks[i].selector,
                             hasPosition |-> ks[i].hasPosition,
                             pageIndex |-> ks[i].pageIndex,
                             offsetX |-> 0, offsetY |-> 0,
                             width |-> 0, height |-> 0,
                             borderWidth |-> NoBorderWidth,
                             backgroundColor |-> NoColor,
                             borderColor |-> NoColor]] :
              ks \in [1..n -> FieldKinds] } : n \in 0..MaxFields }

\* offsetX / offsetY and the width / height overrides of a field.
Offsets == {0, 5}
Widths == {0, 120}

\* A single field with or without selector, position, offsets and overrides.
PlacementFields ==
  { <<[name |-> 1, selector |-> sel, hasPosition |-> hp, pageIndex |-> NoPageIndex,
       offsetX |-> ox, offsetY |-> oy, width |-> w, height |-> h,
       borderWidth |-> NoBorderWidth, backgroundColor |-> bg, borderColor |-> NoColor]>> :
      sel \in Selectors, hp \in BOOLEAN, ox \in Offsets, oy \in Offsets,
      w \in Widths, h \in Widths, bg \in {NoColor} \cup Colors }

\* calculateElementPosition: null when the selector matches no element,
\* otherwise the rectangle scaled by pdfScale = 72 / 96.
calculateElementPosition(content, selector) ==
  IF selector \notin DOMAIN content.dom THEN NoPosition
  ELSE LET rect == content.dom[selector]
       IN [set |-> TRUE,
           x |-> (rect.left * 72) \div 96,
           y |-> (rect.top * 72) \div 96,
           width |-> (rect.width * 72) \div 96,
           height |-> (rect.height * 72) \div 96,
           hasPdfY |-> TRUE,
           pdfY |-> ((content.innerHeight - (rect.top + rect.height)) * 72) \div 96]

\* The first loop of generate: the fieldPositions map, by field name.
fieldPositionsOf(content, fields) ==
  [name \in 1..Len(fields) |->
     IF fields[name].selector # ""
       THEN calculateElementPosition(content, fields[name].selector)
       ELSE IF fields[name].hasPosition THEN ExplicitPosition ELSE NoPosition]

\* this.options.defaultBorderWidth of a generator constructed without options.
defaultBorderWidth == 1

Max(a, b) == IF a > b THEN a ELSE b

\* Variant: the channel is clamped to [0, 1] before the test for > 1.
normalizeRGB_ClampFirst(color) ==
  [i \in 1..3 |->
     LET clamped == Max(0, Min(One, color[i]))
     IN IF clamped > One THEN clamped \div 255 ELSE clamped]

\* normalizeRGB: a channel above 1 is divided by 255, then every channel
\* is clamped to [0, 1].
normalizeRGB(color) ==
  [i \in 1..3 |->
     LET normalized == IF color[i] > One THEN color[i] \div 255 ELSE color[i]
     IN Max(0, Min(One, normalized))]

\* createFieldOptions: the rectangle and the appearance handed to the
\* field's widget.  The vertical coordinate is pdfY for a field with a
\* selector and y otherwise; width and height fall back from the field to
\* the position to 200 x 20; the border colour defaults to rgb(0.8, 0.8, 0.8).
createFieldOptions(field, position) ==
  [x |-> position.x + field.offsetX,
   y |-> IF field.selector # "" THEN position.pdfY + field.offsetY
         ELSE position.y + field.offsetY,
   width |-> IF field.width # 0 THEN field.width
             ELSE IF position.width # 0 THEN position.width ELSE 200,
   height |-> IF field.height # 0 THEN field.height
              ELSE IF position.height # 0 THEN position.height ELSE 20,
   borderWidth |-> IF field.borderWidth.given THEN field.borderWidth.value
                   ELSE defaultBorderWidth,
   backgroundColor |-> IF field.backgroundColor.given
                         THEN [given |-> TRUE, value |-> normalizeRGB(field.backgroundColor.value)]
                         ELSE NoColor,
   borderColor |-> IF field.borderColor.given
                     THEN normalizeRGB(field.borderColor.value)
                     ELSE <<(8 * One) \div 10, (8 * One) \div 10, (8 * One) \div 10>>]

\* Variant: fieldCount++ before the position is looked up.
RECURSIVE addFormFields_CountAll(_, _, _, _)
addFormFields_CountAll(fields, fieldPositions, i, acc) ==
  IF i > Len(fields) THEN acc
  ELSE LET field == fields[i]
           position == fieldPositions[field.name]
       IN IF ~position.set
            THEN addFormFields_CountAll(fields, fieldPositions, i + 1,
                   [acc EXCEPT !.warnings = Append(@, field.name),
                               !.fieldCount = @ + 1])
            ELSE addFormFields_CountAll(fields, fieldPositions, i + 1,
                   [acc EXCEPT !.placed = Append(@, [name |-> field.name, page |-> 0,
                                                     position |-> position,
                                                     options |-> createFieldOptions(field, position)]),
                               !.fieldCount = @ + 1])

\* The second loop of generate, from field i on: a field without a position
\* is warned about and skipped, every other field is added to firstPage
\* (pages[0]) and counted.
RECURSIVE addFormFields(_, _, _, _)
addFormFields(fields, fieldPositions, i, acc) ==
  IF i > Len(fields) THEN acc
  ELSE LET field == fields[i]
           position == fieldPositions[field.name]
       IN IF ~position.set
            THEN addFormFields(fields, fieldPositions, i + 1,
                   [acc EXCEPT !.warnings = Append(@, field.name)])
            ELSE addFormFields(fields, fieldPositions, i + 1,
                   [acc EXCEPT !.placed = Append(@, [name |-> field.name, page |-> 0,
                                                     position |-> position,
                                                     options |-> createFieldOptions(field, position)]),
                               !.fieldCount = @ + 1])

NoFields == [placed |-> <<>>, warnings |-> <<>>, fieldCount |-> 0]

\* The object a successful generate returns.
GenerationResult(fieldCount, pageCount) ==
  [bytes |-> "pdf", path |-> "undefined", fieldCount |-> fieldCount, pageCount |-> pageCount]

NewCall(content, fields) ==
  [pc |-> "init", content |-> content, fields |-> fields,
   pageOpen |-> FALSE, fieldPositions |-> <<>>,
   placed |-> <<>>, warnings |-> <<>>,
   settled |-> "pending", error |-> "none", result |-> <<>>]

\* A generator on which generate is called once, with any configuration.
InitGenerate ==
  /\ InitGenerator({CHOOSE l \in Layouts : l.headerHeight = 10},
                   {[enabled |-> TRUE, startPage |-> 1]})
  /\ multiPageLayout.autoPageBreak
  /\ lastOp = NoOp
  /\ table = NoTable
  /\ form = NoForm
  /\ styled = NoStyled
  /\ browser = 0
  /\ engines = <<>>
  /\ destroys = <<>>
  /\ batch = NoBatch
  /\ \E content \in Contents, fields \in FieldLists :
       calls = [c \in {1} |-> NewCall(content, fields)]

Goes(c, pc) == calls' = [calls EXCEPT ![c].pc = pc]

\* Variant: the catch block returns an empty result instead of rethrowing.
Fails_Swallow(c, error) ==
  calls' = [calls EXCEPT ![c].pc = "done", ![c].settled = "resolved", ![c].error = error,
                         ![c].result = GenerationResult(0, 0)]

\* The call rejects with the error; what was opened stays as it is.
Fails(c, error) ==
  calls' = [calls EXCEPT ![c].pc = "failed", ![c].settled = "rejected", ![c].error = error]

\* init(): launches the engine when there is none.
GenInit(c) ==
  /\ calls[c].pc = "init"
  /\ Goes(c, IF browser = 0 THEN "launching" ELSE "newPage")
  /\ UNCHANGED <<flowVars, browser, engines, callerVars>>

\* `this.browser = await puppeteer.launch(...)` settles.
GenLaunched(c) ==
  /\ calls[c].pc = "launching"
  /\ \/ /\ browser' = Len(engines) + 1
        /\ engines' = Append(engines, 0)
        /\ Goes(c, "newPage")
     \/ /\ Fails(c, "launch")
        /\ UNCHANGED <<browser, engines>>
  /\ UNCHANGED <<flowVars, callerVars>>

\* browser.newPage(): throws on null and on an engine that was closed.
GenNewPage(c) ==
  /\ calls[c].pc = "newPage"
  /\ \/ /\ browser # 0
        /\ engines[browser] = 0
        /\ calls' = [calls EXCEPT ![c].pc = "setContent", ![c].pageOpen = TRUE]
     \/ Fails(c, "newPage")
  /\ UNCHANGED <<flowVars, browser, engines, callerVars>>

\* page.setContent(html) and the wait for the style sheet
GenSetContent(c) ==
  /\ calls[c].pc = "setContent"
  /\ \/ Goes(c, "query")
     \/ Fails(c, "setContent")
  /\ UNCHANGED <<flowVars, browser, engines, callerVars>>

\* The selector queries of the first loop.
GenQuery(c) ==
  /\ calls[c].pc = "query"
  /\ \/ calls' = [calls EXCEPT
                    ![c].pc = "pdf",
                    ![c].fieldPositions = fieldPositionsOf(calls[c].content, calls[c].fields)]
     \/ Fails(c, "evaluate")
  /\ UNCHANGED <<flowVars, browser, engines, callerVars>>

\* page.pdf(...)
GenPdf(c) ==
  /\ calls[c].pc = "pdf"
  /\ \/ Goes(c, "closePage")
     \/ Fails(c, "pdf")
  /\ UNCHANGED <<flowVars, browser, engines, callerVars>>

\* page.close()
GenClosePage(c) ==
  /\ calls[c].pc = "closePage"
  /\ calls' = [calls EXCEPT ![c].pc = "place", ![c].pageOpen = FALSE]
  /\ UNCHANGED <<flowVars, browser, engines, callerVars>>

\* PDFDocument.load, the second loop, save, writeFile and the return.
GenPlace(c) ==
  /\ calls[c].pc = "place"
  /\ \/ LET r == addFormFields(calls[c].fields, calls[c].fieldPositions, 1, NoFields)
        IN calls' = [calls EXCEPT
                       ![c].pc = "done",
                       ![c].settled = "resolved",
                       ![c].placed = r.placed,
                       ![c].warnings = r.warnings,
                       ![c].result = GenerationResult(r.fieldCount, calls[c].content.pageCount)]
     \/ \E e \in {"load", "save", "writeFile"} : Fails(c, e)
  /\ UNCHANGED <<flowVars, browser, engines, callerVars>>

NextGenerate ==
  \/ \E c \in DOMAIN calls : GenInit(c)
  \/ \E c \in DOMAIN calls : GenLaunched(c)
  \/ \E c \in DOMAIN calls : GenNewPage(c)
  \/ \E c \in DOMAIN calls : GenSetContent(c)
  \/ \E c \in DOMAIN calls : GenQuery(c)
  \/ \E c \in DOMAIN calls : GenPdf(c)
  \/ \E c \in DOMAIN calls : GenClosePage(c)
  \/ \E c \in DOMAIN calls : GenPlace(c)

SpecGenerate == InitGenerate /\ [][NextGenerate]_vars

\* A generator on which generate is called once with a single field.
InitPlacement ==
  /\ InitGenerator({CHOOSE l \in Layouts : l.headerHeight = 10},
                   {[enabled |-> TRUE, startPage |-> 1]})
  /\ multiPageLayout.autoPageBreak
  /\ lastOp = NoOp
  /\ table = NoTable
  /\ form = NoForm
  /\ styled = NoStyled
  /\ browser = 0
  /\ engines = <<>>
  /\ destroys = <<>>
  /\ batch = NoBatch
  /\ \E content \in Contents, fields \in PlacementFields :
       calls = [c \in {1} |-> NewCall(content, fields)]

SpecPlacement == InitPlacement /\ [][NextGenerate]_vars

(***************************************************************************)
(* PDFGenerator.destroy, and a caller that awaits each of its calls.       *)
(***************************************************************************)
\* The caller makes at most this many generate and destroy calls.
MaxCalls == 2
MaxDestroys == 2

\* No generate and no destroy call is in progress.
AllSettled ==
  /\ \A c \in DOMAIN calls : calls[c].settled # "pending"
  /\ \A d \in DOMAIN destroys : destroys[d].settled # "pending"

\* A destroy call; target is the instance it found in this.browser (0: null).
NewDestroy == [pc |-> "destroy", target |-> 0, settled |-> "pending"]

\* The caller calls generate once the call before it has settled.
CallGenerate ==
  /\ AllSettled
  /\ Len(calls) < MaxCalls
  /\ \E content \in Contents :
       calls' = Append(calls, NewCall(content, <<>>))
  /\ UNCHANGED <<flowVars, browser, engines, callerVars>>

\* The caller calls destroy once the call before it has settled.
CallDestroy ==
  /\ AllSettled
  /\ Len(destroys) < MaxDestroys
  /\ destroys' = Append(destroys, NewDestroy)
  /\ UNCHANGED <<flowVars, browser, engines, calls, batch>>

\* `if (this.browser)`: with no engine destroy returns at once, otherwise it
\* calls close() on the instance and awaits it.
DestroyTest(d) ==
  /\ destroys[d].pc = "destroy"
  /\ destroys' = [destroys EXCEPT
                    ![d] = IF browser = 0
                             THEN [@ EXCEPT !.pc = "done", !.settled = "resolved"]
                             ELSE [@ EXCEPT !.pc = "closing", !.target = browser]]
  /\ UNCHANGED <<flowVars, browser, engines, calls, batch>>

\* Variant: `this.browser = null` is left out.
DestroyClosed_KeepsBrowser(d) ==
  /\ destroys[d].pc = "closing"
  /\ \/ /\ engines' = [engines EXCEPT ![destroys[d].target] = @ + 1]
        /\ UNCHANGED browser
        /\ destroys' = [destroys EXCEPT ![d].pc = "done", ![d].settled = "resolved"]
     \/ /\ destroys' = [destroys EXCEPT ![d].pc = "failed", ![d].settled = "rejected"]
        /\ UNCHANGED <<browser, engines>>
  /\ UNCHANGED <<flowVars, calls, batch>>

\* `await this.browser.close()` settles: the instance is closed and
\* this.browser set to null, or close() failed and destroy rejects.
DestroyClosed(d) ==
  /\ destroys[d].pc = "closing"
  /\ \/ /\ engines' = [engines EXCEPT ![destroys[d].target] = @ + 1]
        /\ browser' = 0
        /\ destroys' = [destroys EXCEPT ![d].pc = "done", ![d].settled = "resolved"]
     \/ /\ destroys' = [destroys EXCEPT ![d].pc = "failed", ![d].settled = "rejected"]
        /\ UNCHANGED <<browser, engines>>
  /\ UNCHANGED <<flowVars, calls, batch>>

NextLifecycle ==
  \/ CallGenerate
  \/ CallDestroy
  \/ \E d \in DOMAIN destroys : DestroyTest(d)
  \/ \E d \in DOMAIN destroys : DestroyClosed(d)
  \/ \E c \in DOMAIN calls : GenInit(c)
  \/ \E c \in DOMAIN calls : GenLaunched(c)
  \/ \E c \in DOMAIN calls : GenNewPage(c)
  \/ \E c \in DOMAIN calls : GenSetContent(c)
  \/ \E c \in DOMAIN calls : GenQuery(c)
  \/ \E c \in DOMAIN calls : GenPdf(c)
  \/ \E c \in DOMAIN calls : GenClosePage(c)
  \/ \E c \in DOMAIN calls : GenPlace(c)

\* A new PDFGenerator: no engine, no call made yet.
InitLifecycle ==
  /\ InitGenerator({CHOOSE l \in Layouts : l.headerHeight = 10},
                   {[enabled |-> TRUE, startPage |-> 1]})
  /\ multiPageLayout.autoPageBreak
  /\ lastOp = NoOp
  /\ table = NoTable
  /\ form = NoForm
  /\ styled = NoStyled
  /\ NoGenerate

SpecLifecycle == InitLifecycle /\ [][NextLifecycle]_vars

(***************************************************************************)
(* Overlapping generate calls on one PDFGenerator.                         *)
(***************************************************************************)
\* The caller calls generate without awaiting the calls before it
\* (Promise.all over configs.map(config => generator.generate(config))).
CallGenerateConcurrent ==
  /\ Len(calls) < MaxCalls
  /\ \A d \in DOMAIN destroys : destroys[d].settled # "pending"
  /\ \E content \in Contents :
       calls' = Append(calls, NewCall(content, <<>>))
  /\ UNCHANGED <<flowVars, browser, engines, callerVars>>

NextConcurrent ==
  \/ CallGenerateConcurrent
  \/ CallDestroy
  \/ \E d \in DOMAIN destroys : DestroyTest(d)
  \/ \E d \in DOMAIN destroys : DestroyClosed(d)
  \/ \E c \in DOMAIN calls : GenInit(c)
  \/ \E c \in DOMAIN calls : GenLaunched(c)
  \/ \E c \in DOMAIN calls : GenNewPage(c)
  \/ \E c \in DOMAIN calls : GenSetContent(c)
  \/ \E c \in DOMAIN calls : GenQuery(c)
  \/ \E c \in DOMAIN calls : GenPdf(c)
  \/ \E c \in DOMAIN calls : GenClosePage(c)
  \/ \E c \in DOMAIN calls : GenPlace(c)

SpecConcurrent == InitLifecycle /\ [][NextConcurrent]_vars

(***************************************************************************)
(* PDFGenerator.generateBatch.                                             *)
(***************************************************************************)
\* A batch has at most this many configurations.
MaxBatch == 2

\* The configurations of a batch: a content, and no field or one field
\* with an explicit position.
BatchConfigs ==
  { [content |-> content, fields |-> fields] :
      content \in Contents,
      fields \in { fs \in FieldLists :
                     /\ Len(fs) <= 1
                     /\ \A i \in 1..Len(fs) :
                          /\ fs[i].selector = "" /\ fs[i].hasPosition
                          /\ fs[i].pageIndex = NoPageIndex } }

\* Variant: every generate call is started at once (configs.map(generate)).
BatchCall_NoAwait ==
  /\ batch.pc = "running"
  /\ Len(calls) < Len(batch.configs)
  /\ LET config == batch.configs[Len(calls) + 1]
     IN calls' = Append(calls, NewCall(config.content, config.fields))
  /\ UNCHANGED <<flowVars, browser, engines, callerVars>>

\* `this.generate(config)` for the next configuration: the loop reaches it
\* once the result of the configuration before it has been pushed.
BatchCall ==
  /\ batch.pc = "running"
  /\ Len(calls) = Len(batch.results)
  /\ Len(calls) < Len(batch.configs)
  /\ LET config == batch.configs[Len(calls) + 1]
     IN calls' = Append(calls, NewCall(config.content, config.fields))
  /\ UNCHANGED <<flowVars, browser, engines, callerVars>>

\* `await this.generate(config)` settles: the result is pushed, or the
\* rejection leaves the loop and rejects generateBatch.
BatchResume ==
  /\ batch.pc = "running"
  /\ LET i == Len(batch.results) + 1
     IN /\ i \in DOMAIN calls
        /\ calls[i].settled # "pending"
        /\ batch' = IF calls[i].settled = "resolved"
                      THEN [batch EXCEPT !.results = Append(@, calls[i].result)]
                      ELSE [batch EXCEPT !.pc = "rejected"]
  /\ UNCHANGED <<flowVars, browser, engines, calls, destroys>>

\* `return results` after the last configuration.
BatchReturn ==
  /\ batch.pc = "running"
  /\ Len(batch.results) = Len(batch.configs)
  /\ batch' = [batch EXCEPT !.pc = "resolved"]
  /\ UNCHANGED <<flowVars, browser, engines, calls, destroys>>

NextBatch ==
  \/ BatchCall
  \/ BatchResume
  \/ BatchReturn
  \/ \E c \in DOMAIN calls : GenInit(c)
  \/ \E c \in DOMAIN calls : GenLaunched(c)
  \/ \E c \in DOMAIN calls : GenNewPage(c)
  \/ \E c \in DOMAIN calls : GenSetContent(c)
  \/ \E c \in DOMAIN calls : GenQuery(c)
  \/ \E c \in DOMAIN calls : GenPdf(c)
  \/ \E c \in DOMAIN calls : GenClosePage(c)
  \/ \E c \in DOMAIN calls : GenPlace(c)

\* generateBatch is called on a new PDFGenerator.
InitBatch ==
  /\ InitGenerator({CHOOSE l \in Layouts : l.headerHeight = 10},
                   {[enabled |-> TRUE, startPage |-> 1]})
  /\ multiPageLayout.autoPageBreak
  /\ lastOp = NoOp
  /\ table = NoTable
  /\ form = NoForm
  /\ styled = NoStyled
  /\ browser = 0
  /\ engines = <<>>
  /\ calls = <<>>
  /\ destroys = <<>>
  /\ \E n \in 0..MaxBatch : \E configs \in [1..n -> BatchConfigs] :
       batch = [pc |-> "running", configs |-> configs, results |-> <<>>]

SpecBatch == InitBatch /\ [][NextBatch]_vars

(***************************************************************************)
(* Styled fields: the converter, and addTextField's use of it.             *)
(***************************************************************************)
\* convertTailwindToStyles(classes)
ConvertClasses ==
  /\ styled.pc = "input"
  /\ styled' = [styled EXCEPT !.pc = "converted",
                              !.styles = convertTailwindToStyles(styled.classes)]
  /\ UNCHANGED <<defaultPageOptions, multiPageLayout, pages, currentPageIndex,
                 contentFlow, lastOp, table, form, genVars>>

\* The attributes addTextField composes for a field with these class names
\* and these attributes of its own.
ComposeTextField ==
  /\ styled.pc = "input"
  /\ styled' = [styled EXCEPT !.pc = "composed",
                              !.fieldOptions = textFieldOptions(styled.options, styled.classes)]
  /\ UNCHANGED <<defaultPageOptions, multiPageLayout, pages, currentPageIndex,
                 contentFlow, lastOp, table, form, genVars>>

NextStyle ==
  \/ ConvertClasses
  \/ ComposeTextField

\* A class list and the attributes a field gives itself.
InitStyle ==
  /\ InitGenerator({CHOOSE l \in Layouts : l.headerHeight = 10},
                   {[enabled |-> TRUE, startPage |-> 1]})
  /\ multiPageLayout.autoPageBreak
  /\ lastOp = NoOp
  /\ table = NoTable
  /\ form = NoForm
  /\ NoGenerate
  /\ \E classes \in ClassLists, options \in ExplicitOptions :
       styled = [NoStyled EXCEPT !.pc = "input", !.classes = classes, !.options = options]

SpecStyle == InitStyle /\ [][NextStyle]_vars

(***************************************************************************)
(* Custom colours and sizes: a class list is converted, a name is          *)
(* registered, the class list is converted again.                          *)
(***************************************************************************)
AddCustomColor ==
  /\ styled.pc = "converted"
  /\ Len(styled.custom) < MaxCustom
  /\ \E name \in CustomColorNames, c \in CustomColorValues :
       styled' = [styled EXCEPT
                    !.pc = "input",
                    !.colorMap = addCustomColor(colorMap, name, c[1], c[2], c[3]),
                    !.custom = Append(@, [kind |-> "color", name |-> name]),
                    !.before = styled.styles]
  /\ UNCHANGED <<defaultPageOptions, multiPageLayout, pages, currentPageIndex,
                 contentFlow, lastOp, table, form, genVars>>

AddCustomSize ==
  /\ styled.pc = "converted"
  /\ Len(styled.custom) < MaxCustom
  /\ \E name \in CustomSizeNames, value \in CustomSizeValues :
       styled' = [styled EXCEPT
                    !.pc = "input",
                    !.sizeMap = addCustomSize(sizeMap, name, value),
                    !.custom = Append(@, [kind |-> "size", name |-> name]),
                    !.before = styled.styles]
  /\ UNCHANGED <<defaultPageOptions, multiPageLayout, pages, currentPageIndex,
                 contentFlow, lastOp, table, form, genVars>>

NextCustom ==
  \/ ConvertClasses
  \/ AddCustomColor
  \/ AddCustomSize

InitCustom ==
  /\ InitGenerator({CHOOSE l \in Layouts : l.headerHeight = 10},
                   {[enabled |-> TRUE, startPage |-> 1]})
  /\ multiPageLayout.autoPageBreak
  /\ lastOp = NoOp
  /\ table = NoTable
  /\ form = NoForm
  /\ NoGenerate
  /\ \E classes \in CustomClassLists :
       styled = [NoStyled EXCEPT !.pc = "input", !.classes = classes]

SpecCustom == InitCustom /\ [][NextCustom]_vars

(***************************************************************************)
(* Content-flow controller: properties.                                    *)
(***************************************************************************)
\* The advance (h + fieldSpacing, h, or deltaY) of the last operation.
Advanced(op) == op.op \in {"addTextField", "drawRectangle", "updateCurrentY"} /\ ~op.threw

\* An operation that created a page through addPageBreak.
Broke(op) ==
  /\ ~op.threw
  /\ \/ op.op = "addPageBreak"
     \/ op.op \in {"handleContentOverflow", "addTextField", "drawRectangle"} /\ op.ret

\* C4 (as claimed): checkContentOverflow(elementHeight, atY) returns true iff
\* y - elementHeight < bottomMargin + footerHeight, where y is atY whenever
\* atY is supplied, whatever its numeric value, and the cursor otherwise.
C4_OverflowUsesSuppliedY ==
  (lastOp.op = "checkContentOverflow" /\ ~lastOp.threw) =>
    (lastOp.ret <=>
       (IF lastOp.atY.given THEN lastOp.atY.value ELSE contentFlow.currentY) - lastOp.h
         < defaultPageOptions.bottom + multiPageLayout.footerHeight)

\* C5 (as claimed): with auto-page-break enabled, after
\* handleContentOverflow(h) returns the element fits on the active page:
\* currentY - h >= bottomMargin + footerHeight.
C5_FitsAfterOverflowHandling ==
  (lastOp.op = "handleContentOverflow" /\ ~lastOp.threw /\ multiPageLayout.autoPageBreak) =>
    contentFlow.currentY - lastOp.h >= defaultPageOptions.bottom + multiPageLayout.footerHeight

\* C5 (amended): the same for every element that is not taller than the
\* content area of a page, and a text field that overflowed is drawn on the
\* page created for it, at a y not below bottomMargin + footerHeight.
C5_FitsWhenNotTallerThanPage ==
  LET contentHeight == defaultPageOptions.height - defaultPageOptions.top
                         - defaultPageOptions.bottom - multiPageLayout.headerHeight
                         - multiPageLayout.footerHeight
      minY == defaultPageOptions.bottom + multiPageLayout.footerHeight
  IN /\ (lastOp.op = "handleContentOverflow" /\ ~lastOp.threw
           /\ multiPageLayout.autoPageBreak /\ lastOp.h <= contentHeight) =>
          contentFlow.currentY - lastOp.h >= minY
     /\ (lastOp.op = "addTextField" /\ ~lastOp.threw /\ lastOp.ret) =>
          /\ lastOp.page = Len(pages) - 1
          /\ lastOp.h <= contentHeight => lastOp.y >= minY

\* C5 witness: an element that overflowed the page was moved to a new page.
C5_Witness ==
  /\ lastOp.op = "handleContentOverflow" /\ lastOp.ret
  /\ lastOp.h > 0
  /\ lastOp.h <= defaultPageOptions.height - defaultPageOptions.top
                   - defaultPageOptions.bottom - multiPageLayout.headerHeight
                   - multiPageLayout.footerHeight
  /\ Len(pages) >= 2

\* C6 (as claimed): between two page creations the cursor never moves up.
C6_CursorNeverMovesUp ==
  [][(contentFlow.defined /\ Len(pages') = Len(pages)) =>
       contentFlow'.currentY <= contentFlow.currentY]_vars

\* C6 (amended): the cursor moves up only when a page break resets it to the
\* top of the content area, or when an operation advances it by a negative
\* amount; an operation that advances by a non-negative amount on the same
\* page never moves it up, and addPage on a document that has pages leaves it
\* where it is.
C6_CursorMovesUpOnlyOnBreakOrNegativeAdvance ==
  [][contentFlow.defined =>
       /\ contentFlow'.currentY > contentFlow.currentY =>
            \/ Broke(lastOp') /\ Len(pages') = Len(pages) + 1
            \/ Advanced(lastOp') /\ lastOp'.delta < 0
       /\ (Len(pages') = Len(pages) /\ lastOp'.delta >= 0) =>
            contentFlow'.currentY = contentFlow.currentY - lastOp'.delta
       /\ (lastOp'.op = "addPage") =>
            contentFlow'.currentY = contentFlow.currentY]_vars

\* C6 witness: a field was added on a page that already had content, and the
\* cursor is below the top of the content area.
C6_Witness ==
  /\ lastOp.op = "addTextField" /\ ~lastOp.threw /\ ~lastOp.ret
  /\ lastOp.delta > 0
  /\ contentFlow.currentY + lastOp.delta
       < defaultPageOptions.height - defaultPageOptions.top - multiPageLayout.headerHeight

\* C7 (as claimed): the page number handed to the header/footer content and
\* substituted for {current} on the k-th page is k.
C7_StampedNumberIsPageIndex ==
  \A k \in 1..Len(pages) : pages[k].current = k

\* C8: a page break creates exactly one page, sets the cursor to
\* pageHeight - topMargin - headerHeight, remainingHeight to the content
\* height, and increases pageNumber by exactly 1 (an operation that breaks
\* and then advances has moved both by its advance).
C8_PageBreakEffect ==
  [][Broke(lastOp') =>
       /\ Len(pages') = Len(pages) + 1
       /\ contentFlow'.pageNumber = contentFlow.pageNumber + 1
       /\ contentFlow'.currentY =
            defaultPageOptions.height - defaultPageOptions.top
              - multiPageLayout.headerHeight - lastOp'.delta
       /\ contentFlow'.remainingHeight =
            defaultPageOptions.height - defaultPageOptions.top - defaultPageOptions.bottom
              - multiPageLayout.headerHeight - multiPageLayout.footerHeight - lastOp'.delta]_vars

\* C8 witness: addPageBreak was called on a page whose cursor had moved.
C8_Witness ==
  /\ lastOp.op = "addPageBreak" /\ ~lastOp.threw
  /\ Len(pages) = 3
  /\ contentFlow.pageNumber >= 2
  /\ contentFlow.currentY
       = defaultPageOptions.height - defaultPageOptions.top - multiPageLayout.headerHeight

\* C14 (as claimed): page creation, the overflow check, overflow handling
\* and the cursor advance fail in no state, the state before the first
\* page included.
C14_FlowOperationsNeverFail ==
  lastOp.op \in {"addPage", "addPageBreak", "checkContentOverflow",
                 "handleContentOverflow", "updateCurrentY"}
    => ~lastOp.threw

(***************************************************************************)
(* Table splitter: properties.                                             *)
(***************************************************************************)
\* The rows of a fragment.
FragmentRows(f) == f.first .. (f.first + f.count - 1)

\* C3: when a table is split, the row ranges of the fragments emitted so far
\* are pairwise disjoint and in the original order, and once the split has
\* completed their union is exactly 0..rows-1.
C3_FragmentsPartitionRows ==
  table.split =>
    /\ \A i \in 1..Len(table.fragments) : \A j \in 1..Len(table.fragments) :
         i < j => \A a \in FragmentRows(table.fragments[i]) :
                    \A b \in FragmentRows(table.fragments[j]) : a < b
    /\ table.pc = "done" =>
         UNION { FragmentRows(table.fragments[i]) : i \in 1..Len(table.fragments) }
           = 0 .. (table.options.rows - 1)

\* C3 witness: a five-row table was split into three fragments.
C3_Witness ==
  /\ table.split /\ table.pc = "done"
  /\ table.options.rows = 5
  /\ Len(table.fragments) = 3

\* The number of rows of height cellHeight that fit into what remained of
\* the page a fragment was started on.
FragmentCapacity(f) == f.avail \div table.options.cellHeight

\* C11 (as claimed): in a split table every fragment holds at most
\* floor(remainingHeight / cellHeight) rows of the page it is drawn on, and
\* every fragment except the last one holds exactly that many.
C11_FragmentFillsItsPage ==
  (table.split /\ ~table.threw) =>
    \A i \in 1..Len(table.fragments) :
      /\ table.fragments[i].count <= FragmentCapacity(table.fragments[i])
      /\ i < Len(table.fragments) =>
           table.fragments[i].count = FragmentCapacity(table.fragments[i])

\* C12 (as claimed): a table whose total height fits in the remaining height
\* of the active page is emitted as one fragment on that page, and no page
\* is created while it is drawn.
C12_FittingTableCreatesNoPage ==
  (/\ table.pc = "done" /\ ~table.threw
   /\ Len(table.fragments) >= 1
   /\ table.options.rows * table.options.cellHeight <= table.fragments[1].avail) =>
    /\ Len(table.fragments) = 1
    /\ Len(pages) = table.pagesAtStart
    /\ currentPageIndex = table.fragments[1].page

\* C13 (as claimed): a placed block advances the cursor exactly once, by its
\* height, and the remaining height by the same amount: after a table was
\* drawn unsplit on one page with page breaks enabled, cursor and remaining
\* height are lower by rows * cellHeight than when it was started.
C13_TableAdvancesByItsHeight ==
  (/\ table.pc = "done" /\ ~table.threw /\ ~table.split
   /\ table.options.autoPageBreak
   /\ Len(pages) = table.pagesAtStart) =>
    /\ contentFlow.currentY
         = table.fragments[1].cursor - table.options.rows * table.options.cellHeight
    /\ contentFlow.remainingHeight
         = table.fragments[1].avail - table.options.rows * table.options.cellHeight

(***************************************************************************)
(* generate: properties.                                                   *)
(***************************************************************************)
\* The fields of a call whose selector matches no element of the document.
Unresolved(call) ==
  { i \in 1..Len(call.fields) :
      call.fields[i].selector # "" /\ call.fields[i].selector \notin DOMAIN call.content.dom }

\* The fields of a call that have a selector or an explicit position.
Positioned(call) ==
  { i \in 1..Len(call.fields) : call.fields[i].selector # "" \/ call.fields[i].hasPosition }

\* The names of the fields a call placed on a page.
PlacedNames(call) == { call.placed[k].name : k \in 1..Len(call.placed) }

\* The destination page the specification gives a placed field: its explicit
\* pageIndex, otherwise the page its element's vertical offset falls into,
\* otherwise the first page.
ClaimedPage(field, position) ==
  IF field.pageIndex.given THEN field.pageIndex.value
  ELSE IF position.hasPdfY THEN position.y \div A4HeightPt
  ELSE 0

C2_ReturnsSkippedFields ==
  \A c \in DOMAIN calls :
    calls[c].pc = "done" =>
      /\ \A i \in 1..Len(calls[c].fields) :
           (i \in PlacedNames(calls[c]))
             # (\E k \in 1..Len(calls[c].warnings) : calls[c].warnings[k] = i)
      /\ "skippedFields" \in DOMAIN calls[c].result
      /\ Len(calls[c].result.skippedFields)
           = Len(calls[c].fields) - Len(calls[c].placed)

\* C9 (as claimed): a field whose page index is not a page of the generated
\* document is placed on no page and is not counted in fieldCount.
C9_InvalidPageIsSkipped ==
  \A c \in DOMAIN calls :
    calls[c].pc = "done" =>
      LET invalid == { i \in 1..Len(calls[c].fields) :
                         /\ calls[c].fields[i].pageIndex.given
                         /\ calls[c].fields[i].pageIndex.value
                              \notin 0 .. (calls[c].content.pageCount - 1) }
      IN /\ PlacedNames(calls[c]) \cap invalid = {}
         /\ calls[c].result.fieldCount
              = Cardinality({ i \in 1..Len(calls[c].fields) :
                                calls[c].fieldPositions[i].set } \ invalid)

\* C10 (as claimed): a field is placed on its explicit pageIndex when it has
\* one, otherwise on the page inferred from its element's vertical offset,
\* otherwise on the first page.
C10_DestinationPage ==
  \A c \in DOMAIN calls :
    \A k \in 1..Len(calls[c].placed) :
      LET p == calls[c].placed[k]
      IN ClaimedPage(calls[c].fields[p.name], p.position)
           \in 0 .. (calls[c].content.pageCount - 1)
         => p.page = ClaimedPage(calls[c].fields[p.name], p.position)

C15_ExplicitPositionVerbatim ==
  \A c \in DOMAIN calls :
    calls[c].pc = "done" =>
      \A i \in 1..Len(calls[c].fields) :
        calls[c].fields[i].hasPosition =>
          \E k \in 1..Len(calls[c].placed) :
            LET field == calls[c].fields[i]
                o == calls[c].placed[k].options
            IN /\ calls[c].placed[k].name = i
               /\ o.x = ExplicitPosition.x + field.offsetX
               /\ o.y = ExplicitPosition.y + field.offsetY
               /\ field.width = 0 => o.width = ExplicitPosition.width
               /\ field.height = 0 => o.height = ExplicitPosition.height

(***************************************************************************)
(* Engine lifecycle: properties.                                           *)
(***************************************************************************)
\* C16: for a caller that awaits each call, an engine is running whenever a
\* generate call is about to use it, no engine is closed more than once,
\* a destroy call that finds no engine returns without changing anything
\* and without failing, and when a destroy call returns no engine is left
\* running and the generator refers to none.
C16_EngineLifecycle ==
  /\ [](\A c \in DOMAIN calls :
          calls[c].pc = "newPage" => (browser # 0 /\ engines[browser] = 0))
  /\ [](\A e \in DOMAIN engines : engines[e] <= 1)
  /\ [][\A d \in DOMAIN destroys :
          (destroys[d].settled = "pending" /\ destroys'[d].settled # "pending") =>
            /\ destroys'[d].target = 0 =>
                 /\ destroys'[d].settled = "resolved"
                 /\ UNCHANGED <<browser, engines>>
            /\ destroys'[d].settled = "resolved" =>
                 /\ browser' = 0
                 /\ \A e \in DOMAIN engines' : engines'[e] = 1]_vars

\* C16 witness: a generate call returned, the destroy call after it closed
\* the engine, and a second destroy call found nothing to close.
C16_Witness ==
  /\ \E c \in DOMAIN calls : calls[c].pc = "done"
  /\ Len(destroys) = 2
  /\ destroys[1].target = 1 /\ destroys[1].settled = "resolved"
  /\ destroys[2].target = 0 /\ destroys[2].settled = "resolved"
  /\ engines = <<1>>

(***************************************************************************)
(* Batch generation: properties.                                           *)
(***************************************************************************)
\* C17: the k-th generate call of a batch is made for the k-th
\* configuration and only after every call before it has completed; the
\* results are those of the calls, in the order of the configurations, and
\* a batch that returns has one result per configuration.
C17_BatchIsSequential ==
  batch.pc # "none" =>
    /\ \A c \in DOMAIN calls :
         /\ calls[c].content = batch.configs[c].content
         /\ calls[c].fields = batch.configs[c].fields
         /\ \A j \in 1..(c - 1) : calls[j].settled # "pending"
    /\ \A i \in DOMAIN batch.results : batch.results[i] = calls[i].result
    /\ batch.pc = "resolved" => Len(batch.results) = Len(batch.configs)

\* C17 witness: a batch of two configurations returned two different
\* results.
C17_Witness ==
  /\ batch.pc = "resolved"
  /\ Len(batch.configs) = 2
  /\ Len(batch.results) = 2
  /\ batch.results[1].pageCount = 2 /\ batch.results[1].fieldCount = 0
  /\ batch.results[2].pageCount = 1 /\ batch.results[2].fieldCount = 1

(***************************************************************************)
(* Style resolver and composer: properties.                                *)
(***************************************************************************)
\* What the class names of the vocabulary stand for: the property each of
\* them determines and its value (spacing class names are listed below,
\* the remaining ones stand for nothing).
Meaning ==
  (<<"bg", "red", "500">> :> [property |-> "backgroundColor", value |-> <<94, 20, 20>>])
    @@ (<<"bg", "blue", "500">> :> [property |-> "backgroundColor", value |-> <<23, 52, 91>>])
    @@ (<<"text", "white">> :> [property |-> "textColor", value |-> <<100, 100, 100>>])
    @@ (<<"text", "red", "500">> :> [property |-> "textColor", value |-> <<94, 20, 20>>])
    @@ (<<"border", "red", "500">> :> [property |-> "borderColor", value |-> <<94, 20, 20>>])
    @@ (<<"text", "sm">> :> [property |-> "fontSize", value |-> 12])
    @@ (<<"text", "lg">> :> [property |-> "fontSize", value |-> 16])
    @@ (<<"border">> :> [property |-> "borderWidth", value |-> 1])
    @@ (<<"border", "0">> :> [property |-> "borderWidth", value |-> 0])
    @@ (<<"border", "2">> :> [property |-> "borderWidth", value |-> 2])
    @@ (<<"rounded", "lg">> :> [property |-> "borderRadius", value |-> 8])
    @@ (<<"rounded", "none">> :> [property |-> "borderRadius", value |-> 0])
    @@ (<<"text", "center">> :> [property |-> "textAlign", value |-> "center"])
    @@ (<<"text", "left">> :> [property |-> "textAlign", value |-> "left"])
    @@ (<<"font", "bold">> :> [property |-> "fontWeight", value |-> "bold"])
    @@ (<<"italic">> :> [property |-> "fontStyle", value |-> "italic"])
    @@ (<<"underline">> :> [property |-> "textDecoration", value |-> "underline"])
    @@ (<<"no", "underline">> :> [property |-> "textDecoration", value |-> "none"])
    @@ (<<"opacity", "50">> :> [property |-> "opacity", value |-> 50])

\* The spacing class names: the sides each of them sets, and to how many points.
SpacingMeaning ==
  (<<"p", "4">> :> [property |-> "padding", sides |-> {"top", "right", "bottom", "left"}, value |-> 12])
    @@ (<<"px", "2">> :> [property |-> "padding", sides |-> {"left", "right"}, value |-> 6])
    @@ (<<"pt", "1">> :> [property |-> "padding", sides |-> {"top"}, value |-> 3])
    @@ (<<"m", "4">> :> [property |-> "margin", sides |-> {"top", "right", "bottom", "left"}, value |-> 12])
    @@ (<<"my", "2">> :> [property |-> "margin", sides |-> {"top", "bottom"}, value |-> 6])

Properties ==
  {"backgroundColor", "textColor", "borderColor", "fontSize", "borderWidth", "borderRadius",
   "textAlign", "fontWeight", "fontStyle", "textDecoration", "opacity"}

MaxOf(S) == CHOOSE i \in S : \A j \in S : j <= i

\* C19: in the style record of a class list every property has the value
\* of the last class name that stands for it, and is absent when no class
\* name stands for it; every padding and margin side has the value of the
\* last class name that sets this side (0 when only other sides are set).
C19_LastMatchingTokenWins ==
  styled.pc = "converted" =>
    /\ \A a \in Properties :
         LET I == { i \in DOMAIN styled.classes :
                      /\ styled.classes[i] \in DOMAIN Meaning
                      /\ Meaning[styled.classes[i]].property = a }
         IN IF I = {} THEN a \notin DOMAIN styled.styles
            ELSE /\ a \in DOMAIN styled.styles
                 /\ styled.styles[a] = Meaning[styled.classes[MaxOf(I)]].value
    /\ \A a \in {"padding", "margin"} :
         LET any == { i \in DOMAIN styled.classes :
                        /\ styled.classes[i] \in DOMAIN SpacingMeaning
                        /\ SpacingMeaning[styled.classes[i]].property = a }
         IN IF any = {} THEN a \notin DOMAIN styled.styles
            ELSE /\ a \in DOMAIN styled.styles
                 /\ \A side \in {"top", "right", "bottom", "left"} :
                      LET I == { i \in any : side \in SpacingMeaning[styled.classes[i]].sides }
                      IN styled.styles[a][side]
                           = IF I = {} THEN 0
                             ELSE SpacingMeaning[styled.classes[MaxOf(I)]].value

\* C19 witness: "text-sm text-lg" was converted to a font size of 16.
C19_Witness ==
  /\ styled.pc = "converted"
  /\ styled.classes = << <<"text", "sm">>, <<"text", "lg">> >>
  /\ styled.styles["fontSize"] = 16

\* C20 (as claimed): a drawing attribute that a field gives itself is the
\* one the field is drawn with, whatever its value and whatever the field's
\* class names stand for.
C20_ExplicitValueWins ==
  styled.pc = "composed" =>
    \A a \in {"fontSize", "borderWidth", "backgroundColor"} :
      a \in DOMAIN styled.options =>
        /\ a \in DOMAIN styled.fieldOptions
        /\ styled.fieldOptions[a] = styled.options[a]

(***************************************************************************)
(* Colours: properties.                                                    *)
(***************************************************************************)
\* C21: every channel c of a field's background colour is drawn as c / 255
\* when c > 1 and as c otherwise, clamped to [0, 1] afterwards; every drawn
\* channel lies in [0, 1], and [300, -50, 1.5] is drawn as [1, 0, 1.5 / 255].
C21_NormalizeThenClamp ==
  \A c \in DOMAIN calls :
    \A k \in 1..Len(calls[c].placed) :
      LET given == calls[c].fields[calls[c].placed[k].name].backgroundColor
          drawn == calls[c].placed[k].options.backgroundColor
      IN given.given =>
           /\ drawn.given
           /\ \A i \in 1..3 :
                /\ drawn.value[i] >= 0 /\ drawn.value[i] <= One
                /\ LET scaled == IF given.value[i] > One THEN given.value[i] \div 255
                                 ELSE given.value[i]
                   IN drawn.value[i]
                        = IF scaled < 0 THEN 0 ELSE IF scaled > One THEN One ELSE scaled
           /\ given.value = <<300 * One, -50 * One, (3 * One) \div 2>>
                => drawn.value = <<One, 0, 3>>

\* C21 witness: a field with the background colour [300, -50, 1.5] was placed.
C21_Witness ==
  \E c \in DOMAIN calls :
    /\ calls[c].pc = "done"
    /\ Len(calls[c].placed) = 1
    /\ calls[c].fields[1].backgroundColor.value = <<300 * One, -50 * One, (3 * One) \div 2>>
    /\ calls[c].placed[1].options.backgroundColor.value = <<One, 0, 3>>

(***************************************************************************)
(* Page counting: properties.                                              *)
(***************************************************************************)
\* C28: after any sequence of addPage and addPageBreak calls, the page
\* number kept in the content flow equals the number of pages.
C28_PageNumberIsPageCount ==
  (contentFlow.defined /\ lastOp.op \in {"addPage", "addPageBreak"})
    => contentFlow.pageNumber = Len(pages)

(***************************************************************************)
(* Browser pages: properties.                                              *)
(***************************************************************************)
\* C30: every browser page opened by a generate call is closed by the time
\* the call settles, whether the call is fulfilled or rejected.
C30_SettledCallLeavesNoPage ==
  \A c \in DOMAIN calls : calls[c].settled # "pending" => ~calls[c].pageOpen

(***************************************************************************)
(* Split tables: termination, data rows, implicit pages.                   *)
(***************************************************************************)
\* C23: splitting a table terminates whatever the remaining height is: every
\* iteration of the loop of createSplitTable strictly increases the row
\* counter, so a table of n rows is drawn in at most n fragments.
C23_SplitTableTerminates ==
  /\ [][(/\ table.pc = "split"
         /\ table'.split
         /\ Len(table'.fragments) = Len(table.fragments) + 1)
          => table'.currentRow > table.currentRow]_vars
  /\ [](table.split => Len(table.fragments) <= table.options.rows)

\* The data rows drawn in the fragments k.. of a table, in drawing order.
RECURSIVE DrawnData(_, _)
DrawnData(fragments, k) ==
  IF k > Len(fragments) THEN <<>>
  ELSE fragments[k].data \o DrawnData(fragments, k + 1)

\* C24: in a finished split table that has headers, every fragment shows
\* the header and the data rows drawn across the fragments are rows 0, 1,
\* 2, ... of the data, each once and in order: none is lost or repeated at
\* a page boundary.
C24_SplitTableKeepsDataRows ==
  (table.pc = "done" /\ table.split /\ table.options.headers /\ ~table.threw)
    => /\ \A k \in 1..Len(table.fragments) : table.fragments[k].header
       /\ LET drawn == DrawnData(table.fragments, 1)
          IN drawn = DataRows(0, Len(drawn))

\* C27: while the layout's automatic page break is disabled, a step that
\* changes the number of pages is a call of addPage or addPageBreak by the
\* caller, never a step of a table being drawn.
C27_NoImplicitPage ==
  [][(~multiPageLayout.autoPageBreak /\ Len(pages') # Len(pages))
       => table' = table]_vars

(***************************************************************************)
(* Auto-flow forms: properties.                                            *)
(***************************************************************************)
\* C26: every label and field drawn by createAutoFlowForm is placed at a Y
\* that is not below bottomMargin + footerHeight of its page.
C26_AutoFlowStaysAboveFooter ==
  (form.pc = "done" /\ ~form.threw)
    => \A k \in 1..Len(form.placed) : form.placed[k].y >= MinY(G)

(***************************************************************************)
(* Saving: properties.                                                     *)
(***************************************************************************)
\* C29: once save() has run, the total printed on every numbered page is
\* the number of pages of the saved document.
C29_SavedTotalIsPageCount ==
  lastOp.op = "save"
    => \A k \in 1..Len(pages) : pages[k].numbered => pages[k].total = Len(pages)

(***************************************************************************)
(* Overlapping generate calls: properties.                                 *)
(***************************************************************************)
\* C25: generate calls that overlap on one generator share one engine: until
\* destroy is called at most one engine has been launched, and once a
\* destroy has closed the generator's engine and every call has settled no
\* engine the generator launched is still running.
C25_OneSharedEngine ==
  /\ Len(destroys) = 0 => Len(engines) <= 1
  /\ (AllSettled /\ browser = 0 /\ \E d \in DOMAIN destroys : destroys[d].settled = "resolved")
       => \A e \in DOMAIN engines : engines[e] > 0

(***************************************************************************)
(* Custom colours and sizes: properties.                                   *)
(***************************************************************************)
\* A class name refers to a registered colour name when it is "bg-", "text-"
\* or "border-" followed by the name, and to a registered size name when it
\* is the name.
RefersTo(className, custom) ==
  IF custom.kind = "color"
    THEN Len(className) >= 2 /\ className[1] \in {"bg", "text", "border"}
                             /\ Tail(className) = custom.name
    ELSE className = custom.name

LastCustom == styled.custom[Len(styled.custom)]

\* A converted class list that has no class name referring to the name
\* registered last has the styles it had before the registration.
Unaffected(s) ==
  (s.pc = "converted" /\ Len(s.custom) > 0
     /\ \A k \in 1..Len(s.classes) : ~RefersTo(s.classes[k], s.custom[Len(s.custom)]))
    => s.styles = s.before

\* C22: registering a colour or a size changes the entry of that name only
\* (an existing entry is replaced only when it has the same name), and a
\* class list that has no class name referring to the registered name is
\* converted to the same styles as before the registration.
C22_CustomEntryAffectsOnlyItsName ==
  [][/\ Unaffected(styled')
     /\ Len(styled'.custom) = Len(styled.custom) + 1
          => LET custom == styled'.custom[Len(styled'.custom)]
             IN IF custom.kind = "color"
                  THEN /\ styled'.sizeMap = styled.sizeMap
                       /\ DOMAIN styled'.colorMap = DOMAIN styled.colorMap \cup {custom.name}
                       /\ \A n \in DOMAIN styled.colorMap \ {custom.name} :
                            styled'.colorMap[n] = styled.colorMap[n]
                  ELSE /\ styled'.colorMap = styled.colorMap
                       /\ DOMAIN styled'.sizeMap = DOMAIN styled.sizeMap \cup {custom.name}
                       /\ \A n \in DOMAIN styled.sizeMap \ {custom.name} :
                            styled'.sizeMap[n] = styled.sizeMap[n]]_vars

\* C22 witness: the built-in colour "red-500" was replaced by a registered
\* one, and a class list that does not use it but sets other styles was
\* converted again.
C22_Witness ==
  /\ styled.pc = "converted"
  /\ Len(styled.custom) > 0
  /\ LastCustom = [kind |-> "color", name |-> <<"red", "500">>]
  /\ styled.colorMap[<<"red", "500">>] # initializeColorMap[<<"red", "500">>]
  /\ styled.classes = << <<"text", "white">>, <<"border", "2">> >>
  /\ styled.styles = styled.before
  /\ styled.styles # NoStyles

====
